---- MODULE Spec2Model ----
(***************************************************************************)
(* A model of cosign's `verify-attestation` command:                        *)
(* VerifyAttestationCommand.Exec of cmd/cosign/cli/verify/                  *)
(* verify_attestation.go.  One behaviour is one call of Exec: the command   *)
(* options and the image list are fixed by Init, every call of a            *)
(* collaborator (registry, TUF, Rekor, key providers, policy engines) is a  *)
(* step whose outcome is chosen nondeterministically, and every `return`    *)
(* of the Go code goes through Return, which runs the deferred Close calls. *)
(***************************************************************************)
EXTENDS Integers, Sequences, FiniteSets, TLC

\* Bounds of the model.
MaxOptions == 3      \* options set at once in the option family of Init
MaxImages == 2       \* image references of one call in the gate family
MaxRecords == 2      \* attestations a verification returns for one image
MaxRegoErrs == 2     \* errors rego.ValidateJSON returns for one payload

\* The string-valued and boolean options of the command; an option is in
\* c.opts when it is non-empty (a string) or true (a bool).  EnvKeyMaterial
\* stands for "one of the four SIGSTORE_* key material variables is set".
Options ==
  {"KeyRef", "Sk", "CertRef", "CertChain", "CARoots", "CAIntermediates",
   "TSACertChainPath", "TrustedRootPath", "NewBundleFormat", "IgnoreSCT",
   "IgnoreTlog", "RekorURL", "UseSignedTimestamps", "SCTRef", "LocalImage",
   "EnvKeyMaterial"}

\* Policy files and predicate types the inputs are drawn from.
PolicyFiles == {"p.cue", "q.rego", "r.txt"}
PolicyLists ==
  {<<>>, <<"p.cue">>, <<"q.rego">>, <<"p.cue", "q.rego">>, <<"q.rego", "p.cue">>,
   <<"r.txt">>, <<"p.cue", "r.txt">>}
PredicateTypes == {"a", "b"}
RequestedTypes == {"a", "c"}

VARIABLES
  c,                      \* the command: [opts, Policies, PredicateType]
  images,                 \* the image references passed to Exec
  pc,                     \* position of Exec
  err,                    \* the error Exec returns ("nil": none)
  io,                     \* history: collaborator calls made so far, in order
  trustedMaterial,        \* the local of line 102
  co,                     \* the cosign.CheckOpts built by Exec
  opened,                 \* history: hardware key handles opened
  deferred,               \* stack of deferred Close calls
  closed,                 \* history: handles closed, in order
  fulcioVerified,         \* the local of line 289
  idx,                    \* index of imageRef in images (0 before the loop)
  verified,               \* predicate types of the verified attestations
  cuePolicies, regoPolicies,
  vp,                     \* number of records of `verified` already handled
  checked,                \* indexes of the records appended to `checked`
  validationErrors,       \* the collected errors, each [rec, engine]
  checkedPredicateTypes,
  evaluated,              \* history: engine calls of this image [rec, engine, errs]
  gate,                   \* history: what the gate decided for this image
  foundTypes,             \* the `found:` text of the predicate type mismatch error
  outcomes,               \* history: "pass"/"fail" per processed image
  printed,                \* history: PrintVerificationHeader calls
  sign,                   \* the arguments of SignBlobCmd (NoCall in an Exec run)
  root                    \* the root command of New and os.Stdout (NoCall elsewhere)

iterVars == <<verified, cuePolicies, regoPolicies, vp, checked, validationErrors,
              checkedPredicateTypes, evaluated, gate, foundTypes>>
handleVars == <<opened, deferred, closed>>
vars == <<c, images, pc, err, io, trustedMaterial, co, opened, deferred, closed,
          fulcioVerified, idx, verified, cuePolicies, regoPolicies, vp, checked,
          validationErrors, checkedPredicateTypes, evaluated, gate, foundTypes,
          outcomes, printed, sign, root>>
\* The state of the calls other than Exec.
nonExecVars == <<sign, root>>
NoCall == [call |-> "none"]

----------------------------------------------------------------------------
\* The options of the command, named as the fields of the struct.
KeyRef == "KeyRef" \in c.opts
Sk == "Sk" \in c.opts
CertRef == "CertRef" \in c.opts
CertChain == "CertChain" \in c.opts
CARoots == "CARoots" \in c.opts
CAIntermediates == "CAIntermediates" \in c.opts
TSACertChainPath == "TSACertChainPath" \in c.opts
TrustedRootPath == "TrustedRootPath" \in c.opts
NewBundleFormat == "NewBundleFormat" \in c.opts
IgnoreSCT == "IgnoreSCT" \in c.opts
IgnoreTlog == "IgnoreTlog" \in c.opts
RekorURL == "RekorURL" \in c.opts
UseSignedTimestamps == "UseSignedTimestamps" \in c.opts
SCTRef == "SCTRef" \in c.opts
LocalImage == "LocalImage" \in c.opts
EnvKeyMaterial == "EnvKeyMaterial" \in c.opts

\* options.NOf: how many of the given options are set.
NOf(names) == Cardinality(names \cap c.opts)

\* The condition of lines 107-111 (and, negated, of lines 142-146).
ExplicitKeyMaterial ==
  NOf({"CertChain", "CARoots", "CAIntermediates", "TSACertChainPath"}) > 0
    \/ EnvKeyMaterial

\* shouldVerifySCT and keylessVerification of the verify package.
shouldVerifySCT == ~KeyRef /\ ~Sk /\ ~IgnoreSCT
keylessVerification == ~KeyRef /\ ~Sk

\* checkSigstoreBundleUnsupportedOptions without the test of lines 394-396.
checkSigstoreBundleUnsupportedOptions_NoTSA ==
  IF CertRef THEN "UnsupportedCertRef"
  ELSE IF CertChain THEN "UnsupportedCertChain"
  ELSE IF CARoots \/ CAIntermediates THEN "UnsupportedCARoots"
  ELSE "nil"

\* checkSigstoreBundleUnsupportedOptions: the error it returns, "nil" for none.
checkSigstoreBundleUnsupportedOptions ==
  IF CertRef THEN "UnsupportedCertRef"
  ELSE IF CertChain THEN "UnsupportedCertChain"
  ELSE IF CARoots \/ CAIntermediates THEN "UnsupportedCARoots"
  ELSE IF TSACertChainPath THEN "UnsupportedTSACertChainPath"
  ELSE "nil"

\* filepath.Ext on the policy files of the model.
Ext(policy) ==
  CASE policy = "p.cue" -> ".cue"
    [] policy = "q.rego" -> ".rego"
    [] OTHER -> ".txt"

\* The value of co before line 117.
NoCheckOpts ==
  [TrustedMaterial |-> "nil", UseSignedTimestamps |-> FALSE,
   NewBundleFormat |-> FALSE, IgnoreTlog |-> FALSE, CTLogPubKeys |-> "nil",
   TSACertificates |-> "nil", RekorClient |-> "nil", RekorPubKeys |-> "nil",
   RootCerts |-> "nil", IntermediateCerts |-> "nil", SigVerifier |-> "nil",
   SCT |-> "nil"]

\* strings.Join
RECURSIVE Join(_, _)
Join(elems, sep) ==
  IF Len(elems) = 0 THEN ""
  ELSE IF Len(elems) = 1 THEN elems[1]
  ELSE elems[1] \o sep \o Join(Tail(elems), sep)

Call(op, ok) == [op |-> op, ok |-> ok]
Did(op) == \E k \in 1..Len(io) : io[k].op = op
DidOk(op) == \E k \in 1..Len(io) : io[k].op = op /\ io[k].ok

SeqsUpTo(S, n) == UNION {[1..m -> S] : m \in 0..n}

----------------------------------------------------------------------------
InitLocals ==
  /\ err = "nil"
  /\ io = <<>>
  /\ trustedMaterial = "nil"
  /\ co = NoCheckOpts
  /\ opened = <<>>
  /\ deferred = <<>>
  /\ closed = <<>>
  /\ fulcioVerified = FALSE
  /\ idx = 0
  /\ verified = <<>>
  /\ cuePolicies = <<>>
  /\ regoPolicies = <<>>
  /\ vp = 0
  /\ checked = <<>>
  /\ validationErrors = <<>>
  /\ checkedPredicateTypes = <<>>
  /\ evaluated = {}
  /\ gate = "none"
  /\ foundTypes = ""
  /\ outcomes = <<>>
  /\ printed = <<>>

InitRun ==
  /\ pc = "start"
  /\ sign = NoCall
  /\ root = NoCall
  /\ InitLocals

\* Any combination of at most MaxOptions options, no policy, one image at most.
InitOptions ==
  /\ \E s \in SUBSET Options :
       /\ Cardinality(s) <= MaxOptions
       /\ c = [opts |-> s, Policies |-> <<>>, PredicateType |-> "a"]
  /\ images \in {<<>>, <<1>>}

\* Any policies, requested type and image list, verified by key or keyless.
InitGate ==
  /\ \E s \in {{}, {"KeyRef"}}, p \in PolicyLists, t \in RequestedTypes :
       c = [opts |-> s, Policies |-> p, PredicateType |-> t]
  /\ \E n \in 0..MaxImages : images = [k \in 1..n |-> k]

Init == InitRun /\ (InitOptions \/ InitGate)

----------------------------------------------------------------------------
\* A `return e` of Exec before the image loop.
Fail(e) == err' = e /\ pc' = "return"

\* CheckArgs without the test of line 85: a key and a security key together
\* are let through.
CheckArgs_NoKeyConflict ==
  /\ pc = "start"
  /\ IF Len(images) = 0 THEN Fail("ErrHelp")
     ELSE IF ~KeyRef
       THEN \E ok \in BOOLEAN :
              IF ok THEN pc' = "clientOpts" /\ err' = err ELSE Fail("Identities")
       ELSE pc' = "clientOpts" /\ err' = err
  /\ UNCHANGED <<nonExecVars, c, images, io, trustedMaterial, co, handleVars, fulcioVerified,
                 idx, iterVars, outcomes, printed>>

\* lines 80-95
CheckArgs ==
  /\ pc = "start"
  /\ IF Len(images) = 0 THEN Fail("ErrHelp")
     ELSE IF NOf({"KeyRef", "Sk"}) > 1 THEN Fail("KeyParseError")
     ELSE IF ~KeyRef
       THEN \E ok \in BOOLEAN :
              IF ok THEN pc' = "clientOpts" /\ err' = err ELSE Fail("Identities")
       ELSE pc' = "clientOpts" /\ err' = err
  /\ UNCHANGED <<nonExecVars, c, images, io, trustedMaterial, co, handleVars, fulcioVerified,
                 idx, iterVars, outcomes, printed>>

\* lines 97-100
ClientOpts ==
  /\ pc = "clientOpts"
  /\ \E ok \in BOOLEAN :
       /\ io' = Append(io, Call("ClientOpts", ok))
       /\ IF ok THEN pc' = "trustedRoot" /\ err' = err ELSE Fail("ClientOpts")
  /\ UNCHANGED <<nonExecVars, c, images, trustedMaterial, co, handleVars, fulcioVerified,
                 idx, iterVars, outcomes, printed>>

\* FetchTrustedRoot without lines 107-115: the fetched trust root is kept
\* although key material was given explicitly.
FetchTrustedRoot_KeepBundle ==
  /\ pc = "trustedRoot"
  /\ \E ok \in BOOLEAN :
       /\ io' = Append(io, Call("TrustedRoot", ok))
       /\ trustedMaterial' = IF ok THEN "tuf" ELSE "nil"
  /\ pc' = "checkOpts"
  /\ UNCHANGED <<nonExecVars, c, images, err, co, handleVars, fulcioVerified, idx, iterVars,
                 outcomes, printed>>

\* lines 102-115
FetchTrustedRoot ==
  /\ pc = "trustedRoot"
  /\ \E ok \in BOOLEAN :
       /\ io' = Append(io, Call("TrustedRoot", ok))
       /\ trustedMaterial' =
            IF ExplicitKeyMaterial THEN "nil" ELSE IF ok THEN "tuf" ELSE "nil"
  /\ pc' = "checkOpts"
  /\ UNCHANGED <<nonExecVars, c, images, err, co, handleVars, fulcioVerified, idx, iterVars,
                 outcomes, printed>>

\* lines 117-135
BuildCheckOpts ==
  /\ pc = "checkOpts"
  /\ co' = [NoCheckOpts EXCEPT
              !.UseSignedTimestamps = TSACertChainPath \/ UseSignedTimestamps,
              !.NewBundleFormat = NewBundleFormat,
              !.IgnoreTlog = IgnoreTlog,
              !.TrustedMaterial = trustedMaterial]
  /\ pc' = "loadTrustedRoot"
  /\ UNCHANGED <<nonExecVars, c, images, err, io, trustedMaterial, handleVars, fulcioVerified,
                 idx, iterVars, outcomes, printed>>

\* lines 137-151
LoadTrustedRoot ==
  /\ pc = "loadTrustedRoot"
  /\ IF TrustedRootPath
       THEN \E ok \in BOOLEAN :
              /\ io' = Append(io, Call("NewTrustedRootFromPath", ok))
              /\ co' = [co EXCEPT !.TrustedMaterial = IF ok THEN "path" ELSE "nil"]
              /\ IF ok THEN pc' = "newBundle" /\ err' = err
                       ELSE Fail("LoadTrustedRoot")
       ELSE IF ~ExplicitKeyMaterial
         THEN \E ok \in BOOLEAN :
                /\ io' = Append(io, Call("TrustedRoot", ok))
                /\ co' = [co EXCEPT !.TrustedMaterial = IF ok THEN "tuf" ELSE "nil"]
                /\ pc' = "newBundle" /\ err' = err
         ELSE /\ pc' = "newBundle"
              /\ UNCHANGED <<io, co, err>>
  /\ UNCHANGED <<nonExecVars, c, images, trustedMaterial, handleVars, fulcioVerified, idx,
                 iterVars, outcomes, printed>>

\* CheckNewBundle without the test of lines 157-159.
CheckNewBundle_NoTrustedRootCheck ==
  /\ pc = "newBundle"
  /\ IF NewBundleFormat /\ checkSigstoreBundleUnsupportedOptions # "nil"
       THEN Fail(checkSigstoreBundleUnsupportedOptions)
     ELSE pc' = "ctlog" /\ err' = err
  /\ UNCHANGED <<nonExecVars, c, images, io, trustedMaterial, co, handleVars, fulcioVerified,
                 idx, iterVars, outcomes, printed>>

\* lines 153-160
CheckNewBundle ==
  /\ pc = "newBundle"
  /\ IF NewBundleFormat /\ checkSigstoreBundleUnsupportedOptions # "nil"
       THEN Fail(checkSigstoreBundleUnsupportedOptions)
     ELSE IF NewBundleFormat /\ co.TrustedMaterial = "nil"
       THEN Fail("TrustedRootRequired")
     ELSE pc' = "ctlog" /\ err' = err
  /\ UNCHANGED <<nonExecVars, c, images, io, trustedMaterial, co, handleVars, fulcioVerified,
                 idx, iterVars, outcomes, printed>>

\* GetCTLogPubs without the test of co.TrustedMaterial at line 163.
GetCTLogPubs_IgnoreTrustedMaterial ==
  /\ pc = "ctlog"
  /\ IF shouldVerifySCT /\ ~NewBundleFormat
       THEN \E ok \in BOOLEAN :
              /\ io' = Append(io, Call("GetCTLogPubs", ok))
              /\ co' = [co EXCEPT !.CTLogPubKeys = IF ok THEN "targets" ELSE "nil"]
              /\ IF ok THEN pc' = "tsa" /\ err' = err ELSE Fail("GetCTLogPubs")
       ELSE /\ pc' = "tsa"
            /\ UNCHANGED <<io, co, err>>
  /\ UNCHANGED <<nonExecVars, c, images, trustedMaterial, handleVars, fulcioVerified, idx,
                 iterVars, outcomes, printed>>

\* lines 162-168
GetCTLogPubs ==
  /\ pc = "ctlog"
  /\ IF co.TrustedMaterial = "nil" /\ shouldVerifySCT /\ ~NewBundleFormat
       THEN \E ok \in BOOLEAN :
              /\ io' = Append(io, Call("GetCTLogPubs", ok))
              /\ co' = [co EXCEPT !.CTLogPubKeys = IF ok THEN "targets" ELSE "nil"]
              /\ IF ok THEN pc' = "tsa" /\ err' = err ELSE Fail("GetCTLogPubs")
       ELSE /\ pc' = "tsa"
            /\ UNCHANGED <<io, co, err>>
  /\ UNCHANGED <<nonExecVars, c, images, trustedMaterial, handleVars, fulcioVerified, idx,
                 iterVars, outcomes, printed>>

\* lines 170-179: GetTSACerts reads the chain file when a path is given and
\* the TUF targets otherwise.
GetTSACerts ==
  /\ pc = "tsa"
  /\ IF co.UseSignedTimestamps /\ co.TrustedMaterial = "nil" /\ ~NewBundleFormat
       THEN \E ok \in BOOLEAN :
              /\ io' = Append(io, Call("GetTSACerts", ok))
              /\ IF ok
                   THEN /\ co' = [co EXCEPT !.TSACertificates =
                                    IF TSACertChainPath THEN "explicit" ELSE "targets"]
                        /\ pc' = "rekor" /\ err' = err
                   ELSE co' = co /\ Fail("GetTSACerts")
       ELSE /\ pc' = "rekor"
            /\ UNCHANGED <<io, co, err>>
  /\ UNCHANGED <<nonExecVars, c, images, trustedMaterial, handleVars, fulcioVerified, idx,
                 iterVars, outcomes, printed>>

\* SetupRekor with the test of line 181 reduced to !c.IgnoreTlog: the new
\* bundle format does not skip the step.
SetupRekor_NewBundleNotExempt ==
  /\ pc = "rekor"
  /\ IF ~IgnoreTlog
       THEN \E okClient \in BOOLEAN, okPubs \in BOOLEAN :
              LET wantPubs == co.TrustedMaterial = "nil"
                  io1 == IF RekorURL THEN Append(io, Call("NewRekorClient", okClient))
                                     ELSE io
                  co1 == IF RekorURL /\ okClient
                           THEN [co EXCEPT !.RekorClient = "client"] ELSE co
              IN  IF RekorURL /\ ~okClient
                    THEN io' = io1 /\ co' = co /\ Fail("NewRekorClient")
                  ELSE IF wantPubs
                    THEN /\ io' = Append(io1, Call("GetRekorPubs", okPubs))
                         /\ co' = [co1 EXCEPT !.RekorPubKeys =
                                     IF okPubs THEN "targets" ELSE "nil"]
                         /\ IF okPubs THEN pc' = "keyless" /\ err' = err
                                      ELSE Fail("GetRekorPubs")
                  ELSE io' = io1 /\ co' = co1 /\ pc' = "keyless" /\ err' = err
       ELSE /\ pc' = "keyless"
            /\ UNCHANGED <<io, co, err>>
  /\ UNCHANGED <<nonExecVars, c, images, trustedMaterial, handleVars, fulcioVerified, idx,
                 iterVars, outcomes, printed>>

\* lines 181-197
SetupRekor ==
  /\ pc = "rekor"
  /\ IF ~IgnoreTlog /\ ~co.NewBundleFormat
       THEN \E okClient \in BOOLEAN, okPubs \in BOOLEAN :
              LET wantPubs == co.TrustedMaterial = "nil"
                  io1 == IF RekorURL THEN Append(io, Call("NewRekorClient", okClient))
                                     ELSE io
                  co1 == IF RekorURL /\ okClient
                           THEN [co EXCEPT !.RekorClient = "client"] ELSE co
              IN  IF RekorURL /\ ~okClient
                    THEN io' = io1 /\ co' = co /\ Fail("NewRekorClient")
                  ELSE IF wantPubs
                    THEN /\ io' = Append(io1, Call("GetRekorPubs", okPubs))
                         /\ co' = [co1 EXCEPT !.RekorPubKeys =
                                     IF okPubs THEN "targets" ELSE "nil"]
                         /\ IF okPubs THEN pc' = "keyless" /\ err' = err
                                      ELSE Fail("GetRekorPubs")
                  ELSE io' = io1 /\ co' = co1 /\ pc' = "keyless" /\ err' = err
       ELSE /\ pc' = "keyless"
            /\ UNCHANGED <<io, co, err>>
  /\ UNCHANGED <<nonExecVars, c, images, trustedMaterial, handleVars, fulcioVerified, idx,
                 iterVars, outcomes, printed>>

\* lines 199-203: loadCertsKeylessVerification fills the root and intermediate
\* certificates from the chain, from the CA roots or from Fulcio.
LoadCertsKeyless ==
  /\ pc = "keyless"
  /\ IF co.TrustedMaterial = "nil" /\ keylessVerification
       THEN \E ok \in BOOLEAN :
              /\ io' = Append(io, Call("loadCertsKeylessVerification", ok))
              /\ IF ok
                   THEN /\ co' = [co EXCEPT
                                   !.RootCerts =
                                     IF CertChain THEN "chain"
                                     ELSE IF CARoots THEN "caroots" ELSE "fulcio",
                                   !.IntermediateCerts =
                                     IF CertChain THEN "chain"
                                     ELSE IF CARoots
                                       THEN (IF CAIntermediates THEN "caintermediates"
                                                                ELSE "nil")
                                     ELSE "fulcio"]
                        /\ pc' = "switch" /\ err' = err
                   ELSE co' = co /\ Fail("LoadCerts")
       ELSE /\ pc' = "switch"
            /\ UNCHANGED <<io, co, err>>
  /\ UNCHANGED <<nonExecVars, c, images, trustedMaterial, handleVars, fulcioVerified, idx,
                 iterVars, outcomes, printed>>

\* lines 209-217: case keyRef != "".  The verifier may be a PKCS11 key, whose
\* Close is then deferred.
LoadPublicKey ==
  /\ pc = "switch"
  /\ KeyRef
  /\ \E res \in {"err", "key", "pkcs11"} :
       /\ io' = Append(io, Call("PublicKeyFromKeyRef", res # "err"))
       /\ IF res = "err"
            THEN co' = co /\ Fail("LoadPublicKey") /\ UNCHANGED handleVars
            ELSE /\ co' = [co EXCEPT !.SigVerifier = res]
                 /\ pc' = "fulcio" /\ err' = err
                 /\ IF res = "pkcs11"
                      THEN /\ opened' = Append(opened, "pkcs11Key")
                           /\ deferred' = <<"pkcs11Key">> \o deferred
                           /\ closed' = closed
                      ELSE UNCHANGED handleVars
  /\ UNCHANGED <<nonExecVars, c, images, trustedMaterial, fulcioVerified, idx, iterVars,
                 outcomes, printed>>

\* lines 218-227: case c.Sk
OpenSk ==
  /\ pc = "switch"
  /\ ~KeyRef /\ Sk
  /\ \E res \in {"openErr", "verifierErr", "ok"} :
       /\ io' = Append(io, Call("GetKeyWithSlot", res # "openErr"))
       /\ IF res = "openErr"
            THEN co' = co /\ Fail("OpenPivToken") /\ UNCHANGED handleVars
            ELSE /\ opened' = Append(opened, "sk")
                 /\ deferred' = <<"sk">> \o deferred
                 /\ closed' = closed
                 /\ IF res = "verifierErr"
                      THEN co' = co /\ Fail("PivVerifier")
                      ELSE /\ co' = [co EXCEPT !.SigVerifier = "piv"]
                           /\ pc' = "fulcio" /\ err' = err
  /\ UNCHANGED <<nonExecVars, c, images, trustedMaterial, fulcioVerified, idx, iterVars,
                 outcomes, printed>>

\* lines 228-263: case c.CertRef != "", up to the certificate's validation.
\* step names the first call that fails ("ok": none does).
LoadCert ==
  /\ pc = "switch"
  /\ ~KeyRef /\ ~Sk /\ CertRef
  /\ IF NewBundleFormat
       THEN Fail("UnsupportedCertRef") /\ UNCHANGED <<io, co>>
       ELSE \E step \in {"cert", "roots", "intermediates", "chain", "validate", "ok"} :
              LET io1 == Append(io, Call("loadCertFromFileOrURL", step # "cert"))
                  needRoots == ~CertChain /\ co.TrustedMaterial = "nil"
                  io2 == IF needRoots
                           THEN Append(io1, Call("GetRoots", step # "roots"))
                           ELSE io1
                  io3 == IF needRoots
                           THEN Append(io2, Call("GetIntermediates",
                                                  step # "intermediates"))
                           ELSE io1
                  io4 == Append(io1, Call("loadCertChainFromFileOrURL",
                                           step # "chain"))
                  co2 == IF needRoots THEN [co EXCEPT !.RootCerts = "fulcio"] ELSE co
                  co3 == IF needRoots
                           THEN [co2 EXCEPT !.IntermediateCerts = "fulcio"] ELSE co
              IN  /\ step \in {"roots", "intermediates"} => needRoots
                  /\ step = "chain" => CertChain
                  /\ CASE step = "cert" ->
                            io' = io1 /\ co' = co /\ Fail("LoadCert")
                       [] step = "roots" ->
                            io' = io2 /\ co' = co /\ Fail("GetFulcioRoots")
                       [] step = "intermediates" ->
                            io' = io3 /\ co' = co2 /\ Fail("GetFulcioIntermediates")
                       [] step = "chain" ->
                            io' = io4 /\ co' = co /\ Fail("LoadCertChain")
                       [] step = "validate" /\ ~CertChain ->
                            /\ io' = Append(io3, Call("ValidateAndUnpackCert", FALSE))
                            /\ co' = co3 /\ Fail("CertVerifier")
                       [] step = "validate" /\ CertChain ->
                            /\ io' = Append(io4, Call("ValidateAndUnpackCertWithChain",
                                                       FALSE))
                            /\ co' = co /\ Fail("CertVerifier")
                       [] step = "ok" /\ ~CertChain ->
                            /\ io' = Append(io3, Call("ValidateAndUnpackCert", TRUE))
                            /\ co' = [co3 EXCEPT !.SigVerifier = "cert"]
                            /\ pc' = "sct" /\ err' = err
                       [] step = "ok" /\ CertChain ->
                            /\ io' = Append(io4, Call("ValidateAndUnpackCertWithChain",
                                                       TRUE))
                            /\ co' = [co EXCEPT !.SigVerifier = "cert"]
                            /\ pc' = "sct" /\ err' = err
  /\ UNCHANGED <<nonExecVars, c, images, trustedMaterial, handleVars, fulcioVerified, idx,
                 iterVars, outcomes, printed>>

\* lines 264-270: still in case c.CertRef != ""
ReadSCT ==
  /\ pc = "sct"
  /\ IF SCTRef
       THEN \E ok \in BOOLEAN :
              /\ io' = Append(io, Call("ReadFile", ok))
              /\ IF ok THEN /\ co' = [co EXCEPT !.SCT = "sct"]
                            /\ pc' = "fulcio" /\ err' = err
                       ELSE co' = co /\ Fail("ReadSCT")
       ELSE /\ pc' = "fulcio"
            /\ UNCHANGED <<io, co, err>>
  /\ UNCHANGED <<nonExecVars, c, images, trustedMaterial, handleVars, fulcioVerified, idx,
                 iterVars, outcomes, printed>>

\* lines 271-278: case c.TrustedRootPath != ""
TrustedRootPathCase ==
  /\ pc = "switch"
  /\ ~KeyRef /\ ~Sk /\ ~CertRef /\ TrustedRootPath
  /\ IF ~NewBundleFormat THEN Fail("TrustedRootPathUnsupported")
                         ELSE pc' = "fulcio" /\ err' = err
  /\ UNCHANGED <<nonExecVars, c, images, io, trustedMaterial, co, handleVars, fulcioVerified,
                 idx, iterVars, outcomes, printed>>

\* lines 279-282: case c.CARoots != "", and the switch without a matching case
NoVerifierCase ==
  /\ pc = "switch"
  /\ ~KeyRef /\ ~Sk /\ ~CertRef /\ ~TrustedRootPath
  /\ pc' = "fulcio"
  /\ UNCHANGED <<nonExecVars, c, images, err, io, trustedMaterial, co, handleVars,
                 fulcioVerified, idx, iterVars, outcomes, printed>>

\* line 289
SetFulcioVerified ==
  /\ pc = "fulcio"
  /\ fulcioVerified' = (co.SigVerifier = "nil")
  /\ pc' = "loop"
  /\ UNCHANGED <<nonExecVars, c, images, err, io, trustedMaterial, co, handleVars, idx,
                 iterVars, outcomes, printed>>

----------------------------------------------------------------------------
\* FailImage going on with the next image instead of returning.
FailImage_Continue(e) ==
  /\ err' = e
  /\ pc' = "loop"
  /\ outcomes' = Append(outcomes, "fail")

\* A `return e` of Exec inside the image loop: the image has failed.
FailImage(e) ==
  /\ err' = e
  /\ pc' = "return"
  /\ outcomes' = Append(outcomes, "fail")

\* policy.AttestationToPayloadJSON returns a payload only for an attestation
\* of the requested predicate type.
HasPayload(predicateType, gotPredicateType) == gotPredicateType = predicateType

\* line 291: the next imageRef, with the locals of the loop body fresh; or
\* line 381 once the images are exhausted.
LoopHead ==
  /\ pc = "loop"
  /\ IF idx < Len(images)
       THEN /\ idx' = idx + 1
            /\ pc' = "verify"
            /\ verified' = <<>>
            /\ cuePolicies' = <<>>
            /\ regoPolicies' = <<>>
            /\ vp' = 0
            /\ checked' = <<>>
            /\ validationErrors' = <<>>
            /\ checkedPredicateTypes' = <<>>
            /\ evaluated' = {}
            /\ gate' = "none"
            /\ foundTypes' = ""
            /\ err' = err
       ELSE /\ err' = "nil"
            /\ pc' = "return"
            /\ UNCHANGED <<idx, iterVars>>
  /\ UNCHANGED <<nonExecVars, c, images, io, trustedMaterial, co, handleVars, fulcioVerified,
                 outcomes, printed>>

\* lines 295-310
VerifyImage ==
  /\ pc = "verify"
  /\ \E res \in {"parseErr", "verifyErr", "ok"} :
       /\ res = "parseErr" => ~LocalImage
       /\ IF res = "parseErr"
            THEN io' = io /\ verified' = verified /\ FailImage("ParseReference")
            ELSE /\ io' = Append(io, Call(IF LocalImage
                                            THEN "VerifyLocalImageAttestations"
                                            ELSE "VerifyImageAttestations",
                                          res = "ok"))
                 /\ IF res = "ok"
                      THEN /\ verified' \in SeqsUpTo(PredicateTypes, MaxRecords)
                           /\ pc' = "policies"
                           /\ UNCHANGED <<err, outcomes>>
                      ELSE verified' = verified /\ FailImage("Verify")
  /\ UNCHANGED <<nonExecVars, c, images, trustedMaterial, co, handleVars, fulcioVerified, idx,
                 cuePolicies, regoPolicies, vp, checked, validationErrors,
                 checkedPredicateTypes, evaluated, gate, foundTypes, printed>>

IsRego(policy) == Ext(policy) = ".rego"
IsCue(policy) == Ext(policy) = ".cue"

\* PartitionPolicies with an empty default case: a policy that is neither
\* .rego nor .cue is left out.
PartitionPolicies_SkipUnknown ==
  /\ pc = "policies"
  /\ regoPolicies' = SelectSeq(c.Policies, IsRego)
  /\ cuePolicies' = SelectSeq(c.Policies, IsCue)
  /\ pc' = "records"
  /\ UNCHANGED <<err, outcomes>>
  /\ UNCHANGED <<nonExecVars, c, images, io, trustedMaterial, co, handleVars,
                 fulcioVerified, idx, verified, vp, checked, validationErrors,
                 checkedPredicateTypes, evaluated, gate, foundTypes, printed>>

\* lines 312-323
PartitionPolicies ==
  /\ pc = "policies"
  /\ IF \E k \in 1..Len(c.Policies) : Ext(c.Policies[k]) \notin {".rego", ".cue"}
       THEN /\ FailImage("InvalidPolicyFormat")
            /\ UNCHANGED <<cuePolicies, regoPolicies>>
       ELSE /\ regoPolicies' = SelectSeq(c.Policies, IsRego)
            /\ cuePolicies' = SelectSeq(c.Policies, IsCue)
            /\ pc' = "records"
            /\ UNCHANGED <<err, outcomes>>
  /\ UNCHANGED <<nonExecVars, c, images, io, trustedMaterial, co, handleVars, fulcioVerified,
                 idx, verified, vp, checked, validationErrors,
                 checkedPredicateTypes, evaluated, gate, foundTypes, printed>>

\* n copies of e.
Repeat(e, n) == [k \in 1..n |-> e]

\* Line 336 moved below the `continue` of line 339: only the types of the
\* attestations with a payload are kept.
AppendPredicateType_AfterContinue(types, got, hasPayload) ==
  IF hasPayload THEN Append(types, got) ELSE types

\* Line 336: the predicate type of every converted attestation is kept,
\* before its payload is looked at.
AppendPredicateType(types, got, hasPayload) == Append(types, got)

\* A `break` in place of the `continue` of lines 347 and 356.
BreakAfterError(r) == Len(verified)

\* The `continue` of lines 347 and 356: after a validation error on record r
\* the loop goes on with the record after r.
ContinueAfterError(r) == r

\* lines 331-361: one turn of the loop over `verified`.  convOk, cueOk and
\* regoErrs are what AttestationToPayloadJSON, cue.ValidateJSON and
\* rego.ValidateJSON return for this record.
CheckRecord ==
  /\ pc = "records"
  /\ vp < Len(verified)
  /\ \E convOk \in BOOLEAN, cueOk \in BOOLEAN, regoErrs \in 0..MaxRegoErrs :
       LET r == vp + 1
           gotPredicateType == verified[r]
           runCue == Len(cuePolicies) > 0
           runRego == Len(regoPolicies) > 0 /\ (runCue => cueOk)
           cueCall == [rec |-> r, engine |-> "cue", errs |-> IF cueOk THEN 0 ELSE 1]
           regoCall == [rec |-> r, engine |-> "rego", errs |-> regoErrs]
       IN  IF ~convOk
             THEN /\ FailImage("Conversion")
                  /\ UNCHANGED <<vp, checked, validationErrors,
                                 checkedPredicateTypes, evaluated>>
           ELSE /\ checkedPredicateTypes' =
                     AppendPredicateType(checkedPredicateTypes, gotPredicateType,
                                         HasPayload(c.PredicateType,
                                                    gotPredicateType))
                /\ vp' = IF /\ HasPayload(c.PredicateType, gotPredicateType)
                            /\ \/ runCue /\ ~cueOk
                               \/ runRego /\ regoErrs > 0
                           THEN ContinueAfterError(r)
                           ELSE r
                /\ UNCHANGED <<err, pc, outcomes>>
                /\ IF ~HasPayload(c.PredicateType, gotPredicateType)
                     THEN UNCHANGED <<checked, validationErrors, evaluated>>
                     ELSE /\ evaluated' = evaluated
                               \cup (IF runCue THEN {cueCall} ELSE {})
                               \cup (IF runRego THEN {regoCall} ELSE {})
                          /\ IF runCue /\ ~cueOk
                               THEN /\ validationErrors' =
                                         Append(validationErrors,
                                                [rec |-> r, engine |-> "cue"])
                                    /\ checked' = checked
                             ELSE IF runRego /\ regoErrs > 0
                               THEN /\ validationErrors' = validationErrors \o
                                         Repeat([rec |-> r, engine |-> "rego"],
                                                regoErrs)
                                    /\ checked' = checked
                             ELSE /\ checked' = Append(checked, r)
                                  /\ validationErrors' = validationErrors
  /\ UNCHANGED <<nonExecVars, c, images, io, trustedMaterial, co, handleVars, fulcioVerified,
                 idx, verified, cuePolicies, regoPolicies, gate, foundTypes,
                 printed>>

\* Decide with the tests of lines 363 and 371 in the other order.
Decide_MismatchFirst ==
  /\ pc = "records"
  /\ vp = Len(verified)
  /\ IF Len(checked) = 0
       THEN /\ gate' = "mismatch"
            /\ foundTypes' = Join(checkedPredicateTypes, ",")
            /\ FailImage("PredicateTypeMismatch")
            /\ UNCHANGED printed
     ELSE IF Len(validationErrors) > 0
       THEN /\ gate' = "validation"
            /\ FailImage("ValidationErrors")
            /\ UNCHANGED <<foundTypes, printed>>
     ELSE /\ gate' = "pass"
          /\ printed' = Append(printed, [imageRef |-> images[idx],
                                         fulcioVerified |-> fulcioVerified])
          /\ outcomes' = Append(outcomes, "pass")
          /\ pc' = "loop"
          /\ UNCHANGED <<err, foundTypes>>
  /\ UNCHANGED <<nonExecVars, c, images, io, trustedMaterial, co, handleVars, fulcioVerified,
                 idx, verified, cuePolicies, regoPolicies, vp, checked,
                 validationErrors, checkedPredicateTypes, evaluated>>

\* lines 363-378
Decide ==
  /\ pc = "records"
  /\ vp = Len(verified)
  /\ IF Len(validationErrors) > 0
       THEN /\ gate' = "validation"
            /\ FailImage("ValidationErrors")
            /\ UNCHANGED <<foundTypes, printed>>
     ELSE IF Len(checked) = 0
       THEN /\ gate' = "mismatch"
            /\ foundTypes' = Join(checkedPredicateTypes, ",")
            /\ FailImage("PredicateTypeMismatch")
            /\ UNCHANGED printed
     ELSE /\ gate' = "pass"
          /\ printed' = Append(printed, [imageRef |-> images[idx],
                                         fulcioVerified |-> fulcioVerified])
          /\ outcomes' = Append(outcomes, "pass")
          /\ pc' = "loop"
          /\ UNCHANGED <<err, foundTypes>>
  /\ UNCHANGED <<nonExecVars, c, images, io, trustedMaterial, co, handleVars, fulcioVerified,
                 idx, verified, cuePolicies, regoPolicies, vp, checked,
                 validationErrors, checkedPredicateTypes, evaluated>>

\* Every return of Exec: the deferred Close calls run, last deferred first.
Return ==
  /\ pc = "return"
  /\ closed' = closed \o deferred
  /\ deferred' = <<>>
  /\ pc' = "done"
  /\ UNCHANGED <<nonExecVars, c, images, err, io, trustedMaterial, co, opened, fulcioVerified,
                 idx, iterVars, outcomes, printed>>

Next ==
  \/ CheckArgs
  \/ ClientOpts
  \/ FetchTrustedRoot
  \/ BuildCheckOpts
  \/ LoadTrustedRoot
  \/ CheckNewBundle
  \/ GetCTLogPubs
  \/ GetTSACerts
  \/ SetupRekor
  \/ LoadCertsKeyless
  \/ LoadPublicKey
  \/ OpenSk
  \/ LoadCert
  \/ ReadSCT
  \/ TrustedRootPathCase
  \/ NoVerifierCase
  \/ SetFulcioVerified
  \/ LoopHead
  \/ VerifyImage
  \/ PartitionPolicies
  \/ CheckRecord
  \/ Decide
  \/ Return

Spec == Init /\ [][Next]_vars

----------------------------------------------------------------------------
\* Vocabulary of the properties.
Returned == pc \in {"return", "done"}
VerifyOps == {"VerifyImageAttestations", "VerifyLocalImageAttestations"}
ArtifactVerified == \E k \in 1..Len(io) : io[k].op \in VerifyOps
LoopPcs == {"loop", "verify", "policies", "records"}
ResolvedPcs == {"ctlog", "tsa", "rekor", "keyless", "switch", "sct", "fulcio"}
                 \cup LoopPcs
UnsupportedErrors ==
  {"UnsupportedCertRef", "UnsupportedCertChain", "UnsupportedCARoots",
   "UnsupportedTSACertChainPath"}
ConfigErrors ==
  UnsupportedErrors \cup {"KeyParseError", "TrustedRootPathUnsupported"}
\* The errors returned before the trust material is resolved.
ArgumentErrors == {"ErrHelp", "KeyParseError", "Identities", "ClientOpts"}
\* The options an unsupported-option error names.
NamedBy(e) ==
  CASE e = "UnsupportedCertRef" -> {"CertRef"}
    [] e = "UnsupportedCertChain" -> {"CertChain"}
    [] e = "UnsupportedCARoots" -> {"CARoots", "CAIntermediates"}
    [] e = "UnsupportedTSACertChainPath" -> {"TSACertChainPath"}
    [] OTHER -> {}
BundleOverride ==
  CertRef \/ CertChain \/ CARoots \/ CAIntermediates \/ TSACertChainPath

\* C1 as stated: whenever a key and a security key are both selected, Exec
\* returns KeyParseError and has made no collaborator call.
C1_AsStated ==
  (KeyRef /\ Sk /\ Returned) => (err = "KeyParseError" /\ io = <<>>)

\* C1: with a key and a security key both selected, Exec makes no
\* collaborator call at all and returns straight from its argument checks:
\* KeyParseError when at least one image is given, flag.ErrHelp when none is.
C1_KeyAndSkRejected ==
  (KeyRef /\ Sk) =>
    /\ io = <<>>
    /\ pc \in {"start", "return", "done"}
    /\ Returned => err = IF Len(images) = 0 THEN "ErrHelp" ELSE "KeyParseError"

C1_Witness == KeyRef /\ Sk /\ pc = "done" /\ err = "KeyParseError"

\* C2 as stated: no trust-root fetch, CT-log/Rekor/TSA key fetch or artifact
\* fetch precedes the return of a configuration error.
C2_AsStated ==
  err \in ConfigErrors =>
    \A k \in 1..Len(io) :
      io[k].op \notin {"TrustedRoot", "GetCTLogPubs", "GetRekorPubs", "GetTSACerts"}
                        \cup VerifyOps

\* C2: KeyParseError is returned before any collaborator call; every other
\* configuration error is returned after the registry client options were
\* built and the trust root was fetched from TUF (line 102), and before any
\* CT-log, Rekor or TSA key fetch, certificate load or artifact verification.
C2_ConfigErrorsBeforeKeyFetch ==
  err \in ConfigErrors =>
    /\ err = "KeyParseError" => io = <<>>
    /\ err # "KeyParseError" =>
         /\ DidOk("ClientOpts")
         /\ Did("TrustedRoot")
         /\ \A k \in 1..Len(io) :
              io[k].op \in {"ClientOpts", "TrustedRoot", "NewTrustedRootFromPath",
                            "NewRekorClient"}

C2_Witness ==
  pc = "done" /\ err = "TrustedRootPathUnsupported" /\ Did("TrustedRoot")

\* C3 as stated: with the new bundle format and one of the overrides set,
\* Exec returns an unsupported-option error naming an option that is set and
\* verifies no artifact; with none set the check returns no error.
C3_AsStated ==
  /\ (NewBundleFormat /\ BundleOverride /\ Returned) =>
       /\ err \in UnsupportedErrors
       /\ NamedBy(err) \cap c.opts # {}
       /\ ~ArtifactVerified
  /\ ~BundleOverride => checkSigstoreBundleUnsupportedOptions = "nil"

\* C3: with the new bundle format and one of the overrides set, Exec never
\* gets past the check of lines 153-156 and verifies no artifact; it returns
\* an unsupported-option error naming an option that is set, unless an
\* earlier step has failed (no image, key and security key, identities,
\* client options, loading the trusted root).  With none of the overrides
\* set the check returns no error and Exec returns no such error.
C3_UnsupportedOptionsRejected ==
  /\ (NewBundleFormat /\ BundleOverride) =>
       /\ pc \notin ResolvedPcs
       /\ ~ArtifactVerified
       /\ Returned =>
            \/ err \in ArgumentErrors \cup {"LoadTrustedRoot"}
            \/ /\ err \in UnsupportedErrors
               /\ err = checkSigstoreBundleUnsupportedOptions
               /\ NamedBy(err) \cap c.opts # {}
  /\ ~BundleOverride =>
       /\ checkSigstoreBundleUnsupportedOptions = "nil"
       /\ err \notin UnsupportedErrors

C3_Witness ==
  /\ NewBundleFormat /\ TSACertChainPath /\ TrustedRootPath
  /\ pc = "done" /\ err = "UnsupportedTSACertChainPath"

\* C4 as stated: with the new bundle format, a run that has no trusted root
\* once the trust material is resolved fails with the missing-trust-root
\* error.
C4_AsStated ==
  (NewBundleFormat /\ Returned /\ err \notin ArgumentErrors
     /\ co.TrustedMaterial = "nil") => err = "TrustedRootRequired"

\* C4: with the new bundle format Exec never gets past line 160, and never
\* verifies an artifact, with a nil trust root.  A run left without a trusted
\* root fails before the image loop: with the loading error when the
\* explicit path could not be loaded, else with the unsupported-option error
\* when an override is set, else with the missing-trust-root error.
C4_NoVerificationWithoutTrustRoot ==
  NewBundleFormat =>
    /\ (pc \in ResolvedPcs \/ ArtifactVerified) => co.TrustedMaterial # "nil"
    /\ (Returned /\ err \notin ArgumentErrors /\ co.TrustedMaterial = "nil") =>
         /\ idx = 0 /\ ~ArtifactVerified
         /\ err = IF Did("NewTrustedRootFromPath") THEN "LoadTrustedRoot"
                  ELSE IF BundleOverride THEN checkSigstoreBundleUnsupportedOptions
                  ELSE "TrustedRootRequired"

C4_Witness ==
  NewBundleFormat /\ pc = "done" /\ err = "TrustedRootRequired" /\ Did("TrustedRoot")

\* C5 as stated: with a trust root fetched from TUF and exactly one explicit
\* override, the overridden component (the TSA chain) comes from the explicit
\* source and the others (the CT-log keys) still come from the bundle.
C5_AsStated ==
  (/\ pc = "loop" /\ DidOk("TrustedRoot")
   /\ ~TrustedRootPath /\ ~EnvKeyMaterial
   /\ NOf({"CertChain", "CARoots", "CAIntermediates", "TSACertChainPath"}) = 1) =>
    /\ TSACertChainPath => co.TSACertificates = "explicit"
    /\ co.TrustedMaterial # "nil" /\ co.CTLogPubKeys = "nil"

\* C5: when the image loop starts, the trust root fetched from TUF is in use
\* only if no explicit key material (chain, CA roots or intermediates, TSA
\* chain path, SIGSTORE_* variable) was given; any of these drops it as a
\* whole, and then the TSA chain is read from the explicit path and the
\* components not overridden (CT-log keys, Rekor keys) are fetched one by one
\* instead of taken from the bundle.  A trust root loaded from
\* TrustedRootPath is never dropped, and with a trust root in use no
\* component is loaded separately.
C5_OverrideDropsBundle ==
  pc = "loop" =>
    /\ TrustedRootPath => co.TrustedMaterial = "path"
    /\ co.TrustedMaterial = "tuf" => ~ExplicitKeyMaterial /\ ~TrustedRootPath
    /\ co.TrustedMaterial # "nil" =>
         /\ co.CTLogPubKeys = "nil" /\ co.TSACertificates = "nil"
         /\ co.RekorPubKeys = "nil"
         /\ co.RootCerts = "nil" /\ co.IntermediateCerts = "nil"
    /\ (ExplicitKeyMaterial /\ ~TrustedRootPath) =>
         /\ co.TrustedMaterial = "nil"
         /\ co.UseSignedTimestamps =>
              co.TSACertificates = IF TSACertChainPath THEN "explicit" ELSE "targets"
         /\ shouldVerifySCT => co.CTLogPubKeys = "targets"
         /\ ~IgnoreTlog => co.RekorPubKeys = "targets"

C5_Witness ==
  /\ pc = "loop" /\ TSACertChainPath /\ DidOk("TrustedRoot")
  /\ co.TrustedMaterial = "nil"
  /\ co.TSACertificates = "explicit" /\ co.CTLogPubKeys = "targets"

\* The records of this image with a payload of the requested type, those a
\* policy engine reported an error for, and those already handled without one.
Matched == {r \in 1..Len(verified) : HasPayload(c.PredicateType, verified[r])}
FailedRecs == {r \in Matched : \E e \in evaluated : e.rec = r /\ e.errs > 0}
PassedRecs == {r \in Matched : r <= vp /\ r \notin FailedRecs}
Evaluated(r, engine) == \E e \in evaluated : e.rec = r /\ e.engine = engine

\* C6 as stated: when the gate reports validation errors, every configured
\* engine has been run on every matched payload.
C6_AsStated ==
  gate = "validation" =>
    \A r \in Matched :
      /\ Len(cuePolicies) > 0 => Evaluated(r, "cue")
      /\ Len(regoPolicies) > 0 => Evaluated(r, "rego")

\* C6: when the gate decides, every matched payload has been evaluated
\* against the CUE policies if there are any, and against the Rego policies
\* if there are any and the payload did not fail CUE (a CUE error skips Rego
\* for that payload); payloads of another type are not evaluated; and the
\* collected errors are exactly the errors those evaluations returned.
C6_ErrorsCollectedPerPayload ==
  gate # "none" =>
    /\ \A r \in 1..Len(verified) :
         IF r \in Matched
           THEN /\ Evaluated(r, "cue") <=> Len(cuePolicies) > 0
                /\ Evaluated(r, "rego") <=>
                     /\ Len(regoPolicies) > 0
                     /\ ~\E e \in evaluated :
                           e.rec = r /\ e.engine = "cue" /\ e.errs > 0
           ELSE ~Evaluated(r, "cue") /\ ~Evaluated(r, "rego")
    /\ \A e \in evaluated :
         Cardinality({k \in 1..Len(validationErrors) :
                        validationErrors[k] = [rec |-> e.rec, engine |-> e.engine]})
           = e.errs
    /\ \A k \in 1..Len(validationErrors) :
         Evaluated(validationErrors[k].rec, validationErrors[k].engine)

C6_Witness ==
  /\ gate = "validation"
  /\ \E e1 \in evaluated, e2 \in evaluated :
       /\ e1.rec # e2.rec
       /\ e1.engine = "cue" /\ e1.errs > 0
       /\ e2.engine = "rego" /\ e2.errs > 0

\* The loop over the verified records of the current image was entered and
\* the image is done with.
GateRan ==
  /\ idx >= 1
  /\ pc \in {"loop", "return", "done"}
  /\ err \notin {"Verify", "ParseReference", "InvalidPolicyFormat"}

\* C7 as stated: the image passes iff no matched payload failed a policy and
\* one passed them all; otherwise Exec returns an error, which is the
\* validation error exactly when a matched payload failed a policy and the
\* mismatch error exactly when no record matched.
C7_AsStated ==
  GateRan =>
    /\ outcomes[idx] = "pass" <=> (FailedRecs = {} /\ PassedRecs # {})
    /\ outcomes[idx] # "pass" => err # "nil"
    /\ err = "ValidationErrors" <=> FailedRecs # {}
    /\ err = "PredicateTypeMismatch" <=> Matched = {}

\* C7: unless the conversion of a record fails, which makes Exec return the
\* conversion error at once, the gate decides: it passes (and the result is
\* printed) iff no matched payload failed a policy and at least one passed
\* them all; otherwise Exec returns an error, also for an empty record set:
\* the validation error exactly when a matched payload failed a policy, the
\* mismatch error exactly when no record matched.
C7_GateOutcome ==
  /\ GateRan =>
       IF err = "Conversion"
         THEN gate = "none" /\ outcomes[idx] = "fail" /\ Returned
         ELSE /\ gate \in {"pass", "validation", "mismatch"}
              /\ gate = "pass" <=> (FailedRecs = {} /\ PassedRecs # {})
              /\ gate = "validation" <=> FailedRecs # {}
              /\ gate = "mismatch" <=> Matched = {}
              /\ gate = "pass" <=>
                   /\ outcomes[idx] = "pass"
                   /\ printed # <<>>
                   /\ printed[Len(printed)].imageRef = images[idx]
              /\ gate = "pass" => err = "nil"
              /\ gate = "validation" <=> err = "ValidationErrors"
              /\ gate = "mismatch" <=> err = "PredicateTypeMismatch"
              /\ gate # "pass" => Returned
  /\ err \in {"ValidationErrors", "PredicateTypeMismatch"} => GateRan

C7_Witness ==
  pc = "done" /\ gate = "validation" /\ PassedRecs # {} /\ FailedRecs # {}

\* C8: the predicate type mismatch error lists the predicate type of every
\* verified record of the image, one per record and in record order, and is
\* returned only when none of them is of the requested type.
C8_MismatchListsObservedTypes ==
  gate = "mismatch" =>
    /\ err = "PredicateTypeMismatch"
    /\ Matched = {}
    /\ checkedPredicateTypes = verified
    /\ foundTypes = Join(verified, ",")

C8_Witness ==
  /\ gate = "mismatch" /\ c.PredicateType = "c"
  /\ verified = <<"a", "b">> /\ foundTypes = "a,b"

\* C9 as stated: once the image loop has been entered, every requested image
\* is processed and has its own outcome when Exec returns.
C9_AsStated ==
  (pc = "done" /\ idx >= 1) => Len(outcomes) = Len(images)

\* C9: the images are processed one after the other, in order, and Exec
\* returns at the first image that fails: every image before it passed and
\* was printed, no image after it is verified, and Exec returns nil iff
\* every image was processed and passed.
C9_StopsAtFirstFailure ==
  /\ Len(outcomes) <= idx /\ idx <= Len(outcomes) + 1 /\ idx <= Len(images)
  /\ Cardinality({k \in 1..Len(io) : io[k].op \in VerifyOps}) <= idx
  /\ \A k \in 1..Len(outcomes) - 1 : outcomes[k] = "pass"
  /\ Len(printed) = Cardinality({k \in 1..Len(outcomes) : outcomes[k] = "pass"})
  /\ \A k \in 1..Len(printed) : printed[k].imageRef = images[k]
  /\ (outcomes # <<>> /\ outcomes[Len(outcomes)] = "fail") =>
       Returned /\ err # "nil" /\ idx = Len(outcomes)
  /\ (pc = "done" /\ idx >= 1) =>
       (err = "nil" <=> /\ Len(outcomes) = Len(images)
                        /\ \A k \in 1..Len(outcomes) : outcomes[k] = "pass")

C9_Witness ==
  pc = "done" /\ Len(images) = 2 /\ outcomes = <<"fail">> /\ err # "nil"

\* C10: the fulcioVerified flag printed for an image is true exactly when the
\* run is not anchored on an explicit key or a hardware key.
C10_FulcioVerifiedIffCertificateAnchor ==
  \A k \in 1..Len(printed) : printed[k].fulcioVerified <=> ~(KeyRef \/ Sk)

-----------------------------------------------------------------------------
\* SignBlobCmd (sign_blob.go).  Its position, returned error, collaborator
\* calls and key handle are kept in pc, err, io and handleVars.
execVars == <<c, images, trustedMaterial, co, fulcioVerified, idx, iterVars,
              outcomes, printed>>

KeyOpts == [TSAServerURL : {"", "tsa"}, RFC3161TimestampPath : {"", "ts.json"},
            BundlePath : {"", "bundle.json"}]

InitSignBlob ==
  /\ pc = "open"
  /\ sign \in [call : {"SignBlobCmd"}, payloadPath : {"-", "blob"},
               b64 : BOOLEAN, outputSignature : {"", "blob.sig"},
               outputCertificate : {"", "blob.crt"}, tlogUpload : BOOLEAN,
               ko : KeyOpts]
  /\ root = NoCall
  /\ c = [opts |-> {}, Policies |-> <<>>, PredicateType |-> "a"]
  /\ images = <<>>
  /\ InitLocals

\* One step of SignBlobCmd: the calls made, then `return nil, e` or the next
\* position.
SignStep(calls, e, next) ==
  /\ io' = io \o calls
  /\ IF e = "nil" THEN pc' = next /\ err' = err
                  ELSE pc' = "signReturn" /\ err' = e
  /\ UNCHANGED <<execVars, sign, root>>

\* lines 45-57: the payload reader
OpenPayload ==
  /\ pc = "open"
  /\ IF sign.payloadPath = "-"
       THEN SignStep(<<>>, "nil", "signer")
       ELSE \E ok \in BOOLEAN :
              SignStep(<<Call("os.Open", ok)>>, IF ok THEN "nil" ELSE "Open",
                       "signer")
  /\ UNCHANGED handleVars

\* SignerFromKeyOpts without the `defer sv.Close()` of line 66.
SignerFromKeyOpts_NoDefer ==
  /\ pc = "signer"
  /\ \E ok \in BOOLEAN :
       /\ SignStep(<<Call("SignerFromKeyOpts", ok)>>,
                   IF ok THEN "nil" ELSE "SignerFromKeyOpts", "sign")
       /\ opened' = IF ok THEN Append(opened, "sv") ELSE opened
       /\ deferred' = <<"cancel">> \o deferred
       /\ closed' = closed

\* lines 59-66: the context, the signer and its deferred Close
SignerFromKeyOpts ==
  /\ pc = "signer"
  /\ \E ok \in BOOLEAN :
       /\ SignStep(<<Call("SignerFromKeyOpts", ok)>>,
                   IF ok THEN "nil" ELSE "SignerFromKeyOpts", "sign")
       /\ opened' = IF ok THEN Append(opened, "sv") ELSE opened
       /\ deferred' = IF ok THEN <<"sv", "cancel">> \o deferred
                            ELSE <<"cancel">> \o deferred
       /\ closed' = closed

\* lines 68-71
SignMessage ==
  /\ pc = "sign"
  /\ \E ok \in BOOLEAN :
       SignStep(<<Call("SignMessage", ok)>>,
                IF ok THEN "nil" ELSE "SigningBlob", "timestamp")
  /\ UNCHANGED handleVars

\* lines 75-88
Timestamp ==
  /\ pc = "timestamp"
  /\ IF sign.ko.TSAServerURL = ""
       THEN SignStep(<<>>, "nil", "tlog")
       ELSE \E res \in {"clientErr", "timestampErr", "ok"} :
              SignStep(
                <<Call("GetTimestampClient", res # "clientErr")>>
                  \o (IF res = "clientErr" THEN <<>>
                      ELSE <<Call("GetTimestampedSignature", res = "ok")>>),
                CASE res = "clientErr" -> "TSAClient"
                  [] res = "timestampErr" -> "GetTimestampedSignature"
                  [] OTHER -> "nil",
                "tlog")
  /\ UNCHANGED handleVars

\* lines 89-104.  ShouldUploadToTlog may ask the user: either answer is taken.
UploadTlog ==
  /\ pc = "tlog"
  /\ \E res \in {"skip", "bytesErr", "clientErr", "uploadErr", "ok"} :
       SignStep(
         CASE res = "skip" -> <<>>
           [] res = "bytesErr" -> <<Call("sv.Bytes", FALSE)>>
           [] res = "clientErr" ->
                <<Call("sv.Bytes", TRUE), Call("rekor.NewClient", FALSE)>>
           [] OTHER ->
                <<Call("sv.Bytes", TRUE), Call("rekor.NewClient", TRUE),
                  Call("TLogUpload", res = "ok")>>,
         CASE res = "bytesErr" -> "SignerBytes"
           [] res = "clientErr" -> "NewRekorClient"
           [] res = "uploadErr" -> "TLogUpload"
           [] OTHER -> "nil",
         "timestampFile")
  /\ UNCHANGED handleVars

\* lines 107-118
WriteTimestampFile ==
  /\ pc = "timestampFile"
  /\ IF sign.ko.RFC3161TimestampPath = ""
       THEN SignStep(<<>>, "nil", "bundleFile")
       ELSE \E res \in {"marshalErr", "writeErr", "ok"} :
              SignStep(
                IF res = "marshalErr" THEN <<>>
                  ELSE <<Call("os.WriteFile", res = "ok")>>,
                CASE res = "marshalErr" -> "Marshal"
                  [] res = "writeErr" -> "WriteTimestampFile"
                  [] OTHER -> "nil",
                "bundleFile")
  /\ UNCHANGED handleVars

\* lines 121-133
WriteBundleFile ==
  /\ pc = "bundleFile"
  /\ IF sign.ko.BundlePath = ""
       THEN SignStep(<<>>, "nil", "signature")
       ELSE \E res \in {"marshalErr", "writeErr", "ok"} :
              SignStep(
                IF res = "marshalErr" THEN <<>>
                  ELSE <<Call("os.WriteFile", res = "ok")>>,
                CASE res = "marshalErr" -> "Marshal"
                  [] res = "writeErr" -> "WriteBundleFile"
                  [] OTHER -> "nil",
                "signature")
  /\ UNCHANGED handleVars

\* lines 135-153
WriteSignature ==
  /\ pc = "signature"
  /\ IF sign.outputSignature # ""
       THEN \E ok \in BOOLEAN :
              SignStep(<<Call("os.WriteFile", ok)>>,
                       IF ok THEN "nil" ELSE "WriteSignatureFile", "certificate")
       ELSE IF sign.b64
              THEN SignStep(<<Call("fmt.Println", TRUE)>>, "nil", "certificate")
              ELSE \E ok \in BOOLEAN :
                     SignStep(<<Call("os.Stdout.Write", ok)>>,
                              IF ok THEN "nil" ELSE "StdoutWrite", "certificate")
  /\ UNCHANGED handleVars

\* lines 155-174: the certificate file, then `return sig, nil`
WriteCertificate ==
  /\ pc = "certificate"
  /\ IF sign.outputCertificate = ""
       THEN SignStep(<<>>, "nil", "signReturn")
       ELSE \E res \in {"bytesErr", "notCert", "writeErr", "ok"} :
              SignStep(
                <<Call("sv.Bytes", res # "bytesErr")>>
                  \o (IF res \in {"writeErr", "ok"}
                        THEN <<Call("os.WriteFile", res = "ok")>> ELSE <<>>),
                CASE res = "bytesErr" -> "GettingSigner"
                  [] res = "writeErr" -> "WriteCertificateFile"
                  [] OTHER -> "nil",
                "signReturn")
  /\ UNCHANGED handleVars

\* The deferred calls of SignBlobCmd (lines 60, 66) run when it returns, last
\* deferred first; cancel closes no handle.
SignBlobReturn ==
  /\ pc = "signReturn"
  /\ closed' = closed \o SelectSeq(deferred, LAMBDA d : d # "cancel")
  /\ io' = io \o SelectSeq([k \in 1..Len(deferred) |-> Call(deferred[k], TRUE)],
                           LAMBDA x : x.op = "cancel")
  /\ deferred' = <<>>
  /\ pc' = "done"
  /\ UNCHANGED <<execVars, sign, root, err, opened>>

NextSignBlob ==
  \/ OpenPayload
  \/ SignerFromKeyOpts
  \/ SignMessage
  \/ Timestamp
  \/ UploadTlog
  \/ WriteTimestampFile
  \/ WriteBundleFile
  \/ WriteSignature
  \/ WriteCertificate
  \/ SignBlobReturn

SpecSignBlob == InitSignBlob /\ [][NextSignBlob]_vars

\* One call of either kind: an Exec or a SignBlobCmd.
InitCalls == Init \/ InitSignBlob
NextCalls == Next \/ NextSignBlob
SpecCalls == InitCalls /\ [][NextCalls]_vars


-----------------------------------------------------------------------------
\* The hardware-backed key handles a call can open.
Handles == {"pkcs11Key", "sk", "sv"}
Count(seq, h) == Cardinality({k \in 1..Len(seq) : seq[k] = h})

\* C11: a key handle opened by Exec (the PKCS11 key, the PIV key) or by
\* SignBlobCmd (the signer) has its Close deferred from the moment it is
\* opened, so that once the call has returned, on an error path or not, every
\* handle was closed exactly once for each time the call opened it, and no
\* handle is ever closed more often than it was opened.
C11_HandlesClosedOnEveryExit ==
  /\ \A h \in Handles :
       Count(opened, h) = Count(closed, h) + Count(deferred, h)
  /\ pc = "done" => deferred = <<>>

\* A SignBlobCmd that failed after the signer was opened, and has returned.
C11_Witness ==
  /\ sign.call = "SignBlobCmd"
  /\ pc = "done"
  /\ err = "TLogUpload"
  /\ opened = <<"sv">>
  /\ closed = <<"sv">>

-----------------------------------------------------------------------------
\* Some configured policy is neither a .cue nor a .rego file.
InvalidPolicy ==
  \E k \in 1..Len(c.Policies) : Ext(c.Policies[k]) \notin {".rego", ".cue"}

\* C12 as stated: when Exec returns the format error, no artifact has been
\* verified.
C12_AsStated ==
  (InvalidPolicy /\ err = "InvalidPolicyFormat") => ~ArtifactVerified

\* C12: with a policy of an unrecognized extension, Exec never succeeds and
\* never evaluates a policy or prints a result.  The format error is returned
\* for the first artifact, after that artifact has been verified: Exec returns
\* it exactly when it has returned and the first artifact's verification
\* succeeded, and no second artifact is reached.
C12_InvalidPolicyFailsFirstArtifact ==
  InvalidPolicy =>
    /\ evaluated = {}
    /\ printed = <<>>
    /\ "pass" \notin {outcomes[k] : k \in 1..Len(outcomes)}
    /\ idx <= 1
    /\ Returned => err # "nil"
    /\ (err = "InvalidPolicyFormat") <=>
         (Returned /\ \E k \in 1..Len(io) : io[k].op \in VerifyOps /\ io[k].ok)

\* The format error, returned after the first of two artifacts was verified.
C12_Witness ==
  /\ InvalidPolicy
  /\ Len(images) = 2
  /\ pc = "done"
  /\ err = "InvalidPolicyFormat"
  /\ ArtifactVerified
  /\ outcomes = <<"fail">>

-----------------------------------------------------------------------------
\* The number of times the distributed trust root was asked for.
TrustedRootFetches == Cardinality({k \in 1..Len(io) : io[k].op = "TrustedRoot"})
\* The check options without the verifier the switch of line 208 stores in them.
TrustFields(o) == [o EXCEPT !.SigVerifier = "nil"]
\* A certificate has been validated, or the loop over the artifacts has begun.
TrustContextInUse ==
  \/ Did("ValidateAndUnpackCert")
  \/ Did("ValidateAndUnpackCertWithChain")
  \/ idx >= 1

\* C13: in one Exec the distributed trust root is asked for at most once, and
\* once a certificate has been validated or the first artifact's verification
\* has begun, no trust field of the check options changes any more.
C13_ResolvedOnceThenReadOnly ==
  /\ [](TrustedRootFetches <= 1)
  /\ [][TrustContextInUse => TrustFields(co)' = TrustFields(co)]_vars

-----------------------------------------------------------------------------
\* The positions of Exec after the transparency-log step of lines 181-197.
PastRekorPcs == {"keyless", "switch", "sct", "fulcio"} \cup LoopPcs
TlogSkipped == IgnoreTlog \/ NewBundleFormat

\* C14 as stated, for the runs that entered the step: a finished run that
\* neither ignores the log nor uses the new bundle format, has no trust root
\* and asked for a Rekor client, has fetched the Rekor public keys.
C14_AsStated ==
  (pc = "done" /\ ~TlogSkipped /\ co.TrustedMaterial = "nil"
     /\ Did("NewRekorClient"))
    => Did("GetRekorPubs")

\* C14: with IgnoreTlog or the new bundle format, no Rekor client is created
\* and no Rekor public key is fetched.  Otherwise a run that gets past the
\* step without a trust root has fetched the Rekor public keys, they are
\* fetched only without a trust root and only once the Rekor client, if one
\* is asked for, was created, and a failed fetch makes Exec return that error
\* with no artifact verified.
C14_TlogStepSkippedOrKeysFetched ==
  /\ TlogSkipped =>
       /\ ~Did("NewRekorClient") /\ ~Did("GetRekorPubs")
       /\ co.RekorClient = "nil" /\ co.RekorPubKeys = "nil"
  /\ (~TlogSkipped /\ co.TrustedMaterial = "nil"
        /\ (pc \in PastRekorPcs \/ ArtifactVerified))
       => DidOk("GetRekorPubs")
  /\ Did("GetRekorPubs") =>
       /\ co.TrustedMaterial = "nil"
       /\ RekorURL => DidOk("NewRekorClient")
  /\ (Did("GetRekorPubs") /\ ~DidOk("GetRekorPubs")) =>
       /\ Returned /\ err = "GetRekorPubs"
       /\ ~ArtifactVerified
  /\ (Did("NewRekorClient") /\ ~DidOk("NewRekorClient")) =>
       /\ Returned /\ err = "NewRekorClient"
       /\ ~Did("GetRekorPubs")

\* A run whose fetch of the Rekor public keys failed, after the client was
\* created.
C14_Witness ==
  /\ ~TlogSkipped
  /\ pc = "done"
  /\ err = "GetRekorPubs"
  /\ DidOk("NewRekorClient")
  /\ ~ArtifactVerified

-----------------------------------------------------------------------------
\* C15: an Exec with a trusted root path and without the new bundle format
\* verifies no artifact and does not succeed, whatever the other anchor
\* options (KeyRef, Sk, CertRef, CARoots) are.
C15_TrustedRootPathNeedsNewBundle ==
  (TrustedRootPath /\ ~NewBundleFormat) =>
    /\ ~ArtifactVerified
    /\ pc = "done" => err # "nil"

-----------------------------------------------------------------------------
\* The root command built by New (commands.go).  root holds ro.OutputFile,
\* the closure variables out and stdout, and the process-wide os.Stdout; pc
\* is the hook cobra runs next.
MaxWrites == 3
StdStreams == {"tty", "pipe"}

InitRoot ==
  /\ pc = "preRun"
  /\ \E f \in {"", "out.txt"}, v \in BOOLEAN, s \in StdStreams :
       root = [call |-> "New", OutputFile |-> f, Verbose |-> v,
               osStdout |-> s, initialStdout |-> s,
               out |-> "nil", stdout |-> "nil", cmdOut |-> "default",
               debugOut |-> "discard", closedFiles |-> {}, written |-> <<>>]
  /\ sign = NoCall
  /\ c = [opts |-> {}, Policies |-> <<>>, PredicateType |-> "a"]
  /\ images = <<>>
  /\ InitLocals

\* lines 64-81: PersistentPreRunE
PersistentPreRunE ==
  /\ pc = "preRun"
  /\ IF root.OutputFile # ""
       THEN \E ok \in BOOLEAN :
              /\ io' = Append(io, Call("os.Create", ok))
              /\ IF ok
                   THEN /\ root' = [root EXCEPT
                                      !.out = root.OutputFile,
                                      !.stdout = root.osStdout,
                                      !.osStdout = root.OutputFile,
                                      !.cmdOut = root.OutputFile,
                                      !.debugOut = IF root.Verbose THEN "stderr"
                                                                   ELSE @]
                        /\ pc' = "run" /\ err' = err
                   ELSE /\ root' = root
                        /\ err' = "CreateOutputFile" /\ pc' = "done"
       ELSE /\ root' = [root EXCEPT !.debugOut = IF root.Verbose THEN "stderr"
                                                                 ELSE @]
            /\ pc' = "run"
            /\ UNCHANGED <<io, err>>
  /\ UNCHANGED <<execVars, handleVars, sign>>

\* The command that runs between the two hooks prints to os.Stdout.
RunCommand ==
  /\ pc = "run"
  /\ \/ /\ Len(root.written) < MaxWrites
        /\ \E text \in {"a", "b"} :
             root' = [root EXCEPT
                        !.written = Append(@, [to |-> root.osStdout, text |-> text])]
        /\ pc' = pc
     \/ /\ pc' = "postRun"
        /\ root' = root
  /\ UNCHANGED <<execVars, handleVars, sign, io, err>>

\* lines 82-87: PersistentPostRun
PersistentPostRun ==
  /\ pc = "postRun"
  /\ root' = [root EXCEPT
                !.closedFiles = IF root.out # "nil" THEN @ \cup {root.out} ELSE @,
                !.osStdout = root.stdout]
  /\ pc' = "done"
  /\ UNCHANGED <<execVars, handleVars, sign, io, err>>

NextRoot ==
  \/ PersistentPreRunE
  \/ RunCommand
  \/ PersistentPostRun

SpecRoot == InitRoot /\ [][NextRoot]_vars

\* C16: once PersistentPreRunE and PersistentPostRun have both run, os.Stdout
\* is again what it was before PersistentPreRunE, with or without an output
\* file.
C16_StdoutRestored ==
  (root.call = "New" /\ pc = "done" /\ err = "nil")
    => root.osStdout = root.initialStdout

=============================================================================
